---------------------------- MODULE Spec2Model ----------------------------
(***************************************************************************)
(* Model of the two scripts of the accounting-app repository:              *)
(*   src/download_android_project.py  the download server (ServerSpec)     *)
(*   src/upload_apk_to_github.py      the build-and-upload orchestrator    *)
(*                                    (Spec)                               *)
(* Strings are sequences of atoms; an atom stands for one character or one *)
(* run of characters that the code never looks inside.                     *)
(***************************************************************************)
EXTENDS Integers, Sequences, FiniteSets, TLC

(* ------------------------------ bounds -------------------------------- *)
MaxPathLen == 3
MaxFileBlocks == 2
BlockBytes == 256
MaxAnswerLen == 2
MaxTokenLen == 1
MaxRepoLen == 2
MaxOutLen == 2

(* ------------------------------ strings ------------------------------- *)
\* All strings over alphabet A of length at most n.
StringsUpTo(A, n) == UNION {[1..k -> A] : k \in 0..n}

\* The marker of a value that does not exist: an unset environment
\* variable (os.environ.get -> None), a missing file, a None return.
None == [some |-> FALSE, val |-> <<>>]
Some(v) == [some |-> TRUE, val |-> v]

Whitespace == {" "}

RECURSIVE LStrip(_)
LStrip(s) ==
    IF s # <<>> /\ Head(s) \in Whitespace THEN LStrip(Tail(s)) ELSE s

RECURSIVE RStrip(_)
RStrip(s) ==
    IF s # <<>> /\ s[Len(s)] \in Whitespace
    THEN RStrip(SubSeq(s, 1, Len(s) - 1))
    ELSE s

\* a strip that forgets the right end (str.lstrip)
StripLeftOnly(s) == LStrip(s)

\* str.strip()
Strip(s) == RStrip(LStrip(s))

\* str.lower(), atom by atom: the only upper-case atoms are "Y" and "N".
LowerAtom(c) == IF c = "Y" THEN "y" ELSE IF c = "N" THEN "n" ELSE c
Lower(s) == [i \in 1..Len(s) |-> LowerAtom(s[i])]

\* sub in s
Contains(sub, s) ==
    \E i \in 1..(Len(s) - Len(sub) + 1) : SubSeq(s, i, i + Len(sub) - 1) = sub

\* Python truthiness of an Optional[str]: None and "" are falsy.
Truthy(o) == o.some /\ o.val # <<>>

(* ------------------------------- state -------------------------------- *)
VARIABLES
    zip,        \* the target file: None (absent) or Some(contents), contents a sequence of blocks
    spc,        \* position of the request handler
    path,       \* self.path of the request being handled
    resp,       \* what has been written to the client for this request
    zipAtCheck, \* the file as os.path.exists / os.path.getsize saw it
    zipAtRead   \* the file as open(...).read() saw it

svars == <<zip, spc, path, resp, zipAtCheck, zipAtRead>>

VARIABLES
    env,            \* os.environ restricted to the three variables the script uses
    apk,            \* whether the build artifact exists on disk
    pc,             \* position of main
    apk_path,       \* what create_apk returned: None or Some(ApkPath)
    upload_arg,     \* the argument upload_to_github was called with
    upload_result,  \* what upload_to_github returned: "-", "True", "False"
    reported,       \* what main printed at the end
    events,         \* the external commands run and prompts shown, in order
    supplied,       \* per variable, what the operator typed at its prompt
    buildCmd,       \* outcome of the build command, until main resumes
    uploadCmd,      \* outcome of the upload command and the environment it got
    declined,       \* how the rebuild prompt was answered
    recheck,        \* what upload_to_github's own look for the artifact found
    env0,           \* the environment the process started with
    ensured         \* per variable, what its ensure function returned

ovars == <<env, apk, pc, apk_path, upload_arg, upload_result, reported, events,
           supplied, buildCmd, uploadCmd, declined, recheck, env0, ensured>>

vars == <<zip, spc, path, resp, zipAtCheck, zipAtRead,
          env, apk, pc, apk_path, upload_arg, upload_result, reported, events,
          supplied, buildCmd, uploadCmd, declined, recheck, env0, ensured>>


(* ========================= the download server ========================= *)
ZIP_FILE == "accounting-android-project.zip"

PathAtoms == {"/", "download", "?x"}
Paths == StringsUpTo(PathAtoms, MaxPathLen)
RootPath == <<"/">>
DownloadPath == <<"/", "download">>

Blocks == {"a", "b"}
ZipContents == StringsUpTo(Blocks, MaxFileBlocks)

\* os.path.getsize of an existing file
GetSize(f) == Len(f) * BlockBytes

\* f"{size / 1024:.1f}": size/1024 is exact in binary floating point, and
\* .1f rounds the exact value to one decimal, ties to even.  The result is
\* the number of tenths shown.
FormatKB(size) ==
    LET q == (size * 10) \div 1024
        r == (size * 10) % 1024
    IN  IF r > 512 THEN q + 1
        ELSE IF r < 512 THEN q
        ELSE IF q % 2 = 0 THEN q ELSE q + 1

NoBody == [kind |-> "none", tenthsKB |-> 0, data |-> <<>>, text |-> ""]
HtmlBody(t) == [kind |-> "html", tenthsKB |-> t, data |-> <<>>, text |-> ""]
FileBody(d) == [kind |-> "file", tenthsKB |-> 0, data |-> d, text |-> ""]
TextBody(t) == [kind |-> "text", tenthsKB |-> 0, data |-> <<>>, text |-> t]

NoResp == [status |-> 0, ctype |-> "", disposition |-> "", body |-> NoBody,
           raised |-> FALSE]

\* a routing that drops the query string before comparing
RouteIgnoringQuery(p) ==
    LET q == SelectSeq(p, LAMBDA a : a # "?x") IN
    IF q = RootPath THEN "root"
    ELSE IF q = DownloadPath THEN "download"
    ELSE "other"

\* The branch of do_GET that a path takes: self.path is compared whole,
\* query string and trailing slash included.
Route(p) ==
    IF p = RootPath THEN "root"
    ELSE IF p = DownloadPath THEN "download"
    ELSE "other"

ServerInit ==
    /\ zip \in {Some(c) : c \in ZipContents}  \* __main__ exits unless the file exists
    /\ spc = "idle"
    /\ path = <<>>
    /\ resp = NoResp
    /\ zipAtCheck = None
    /\ zipAtRead = None

\* A GET request arrives; BaseHTTPRequestHandler calls do_GET.
Receive ==
    /\ spc \in {"idle", "done"}
    /\ \E p \in Paths : path' = p
    /\ spc' = "do_GET"
    /\ resp' = NoResp
    /\ zipAtCheck' = None
    /\ zipAtRead' = None
    /\ UNCHANGED <<ovars, zip>>

\* self.path == "/": status and headers go out, then the page is formatted;
\* os.path.getsize raises when the file is gone and nothing more is written.
GetRoot ==
    /\ spc = "do_GET"
    /\ Route(path) = "root"
    /\ zipAtCheck' = zip
    /\ resp' = [status |-> 200, ctype |-> "text/html", disposition |-> "",
                body |-> IF zip.some THEN HtmlBody(FormatKB(GetSize(zip.val)))
                         ELSE NoBody,
                raised |-> ~zip.some]
    /\ spc' = "done"
    /\ UNCHANGED <<ovars, zip, path, zipAtRead>>

\* self.path == "/download": os.path.exists, then either the 200 headers
\* (the read follows) or the whole 404 answer.
GetDownloadCheck ==
    /\ spc = "do_GET"
    /\ Route(path) = "download"
    /\ zipAtCheck' = zip
    /\ IF zip.some
       THEN /\ resp' = [status |-> 200, ctype |-> "application/zip",
                        disposition |-> ZIP_FILE, body |-> NoBody,
                        raised |-> FALSE]
            /\ spc' = "read"
       ELSE /\ resp' = [status |-> 404, ctype |-> "text/html",
                        disposition |-> "",
                        body |-> TextBody("404 - File not found"),
                        raised |-> FALSE]
            /\ spc' = "done"
    /\ UNCHANGED <<ovars, zip, path, zipAtRead>>

\* open(ZIP_FILE, "rb") and f.read(): raises when the file is gone.
GetDownloadRead ==
    /\ spc = "read"
    /\ zipAtRead' = zip
    /\ resp' = [resp EXCEPT !.body = IF zip.some THEN FileBody(zip.val) ELSE NoBody,
                            !.raised = ~zip.some]
    /\ spc' = "done"
    /\ UNCHANGED <<ovars, zip, path, zipAtCheck>>

\* any other path
GetOther ==
    /\ spc = "do_GET"
    /\ Route(path) = "other"
    /\ resp' = [status |-> 404, ctype |-> "text/html", disposition |-> "",
                body |-> TextBody("404 - Page not found"), raised |-> FALSE]
    /\ spc' = "done"
    /\ UNCHANGED <<ovars, zip, path, zipAtCheck, zipAtRead>>

\* An outside actor replaces or removes the file at any moment.
OutsideWriteZip ==
    /\ \E c \in ZipContents : Some(c) # zip /\ zip' = Some(c)
    /\ UNCHANGED <<ovars, spc, path, resp, zipAtCheck, zipAtRead>>

OutsideRemoveZip ==
    /\ zip.some
    /\ zip' = None
    /\ UNCHANGED <<ovars, spc, path, resp, zipAtCheck, zipAtRead>>

ServerNext ==
    \/ Receive
    \/ GetRoot
    \/ GetDownloadCheck
    \/ GetDownloadRead
    \/ GetOther
    \/ OutsideWriteZip
    \/ OutsideRemoveZip

(* ==================== the build-and-upload orchestrator ================ *)
\* The model follows the functions of upload_apk_to_github.py as written.
\* (The file as committed ends with "main()python upload_apk_to_github.py"
\* on line 176, which Python rejects as a syntax error; the functions
\* themselves are well formed.)
EnvVars == {"GITHUB_TOKEN", "GITHUB_REPO", "RELEASE_VERSION"}

\* os.path.join("bin", "accountingapp-debug.apk")
ApkPath == <<"bin", "/", "accountingapp-debug.apk">>

\* "username/repo"
Placeholder == <<"username", "/", "repo">>

\* the fixed substring of the upload command's output
SuccessMsg == <<"S1", "S2">>

\* what the operator may type
Answers == StringsUpTo({" ", "y", "Y", "n"}, MaxAnswerLen)
TokenInputs == StringsUpTo({" ", "tok"}, MaxTokenLen)
RepoInputs == StringsUpTo({" ", "/", "r"}, MaxRepoLen)
                  \cup {Placeholder, <<" ">> \o Placeholder}
\* what an external command may print
Outputs == StringsUpTo({" ", "S1", "S2"}, MaxOutLen)
ExitCodes == {0, 1}
Versions == {<<"v1">>}

NoCmd == [ran |-> FALSE, exit |-> 0, stdout |-> <<>>, apkAfter |-> FALSE,
          env |-> [v \in EnvVars |-> None]]
NoReport == [kind |-> "", version |-> None, repo |-> None]
NoAnswer == [asked |-> FALSE, raw |-> <<>>]
NotAsked == [asked |-> FALSE, typedY |-> FALSE, saidYes |-> FALSE]

\* The operator typed y or Y, possibly with blanks around it.
IsYes(raw) ==
    \E i \in 1..Len(raw) :
        /\ raw[i] \in {"y", "Y"}
        /\ \A j \in 1..Len(raw) : j # i => raw[j] \in Whitespace

\* execute_command: the stripped standard output, or None on a non-zero exit
execute_command(exit, stdout) ==
    IF exit = 0 THEN Some(Strip(stdout)) ELSE None

\* a prompt that rebuilds unless the answer is 'n'
RebuildUnlessNo(raw) == Lower(Strip(raw)) # <<"n">>

\* rebuild != 'y' is the decline branch
RebuildWanted(raw) == Lower(Strip(raw)) = <<"y">>

\* save == 'y'
SaveWanted(raw) == Lower(Strip(raw)) = <<"y">>

\* not os.environ.get("GITHUB_TOKEN")
TokenMissing(e) == ~Truthy(e["GITHUB_TOKEN"])

\* not os.environ.get("GITHUB_REPO") or os.environ.get("GITHUB_REPO") == "username/repo"
RepoMissing(e) ==
    ~Truthy(e["GITHUB_REPO"]) \/ e["GITHUB_REPO"] = Some(Placeholder)

\* a token check that lets the empty token through
TokenAcceptedAlways(token) == TRUE

\* if token:
TokenAccepted(token) == token # <<>>

\* a repository check without the separator test
RepoAcceptedIfNonEmpty(repo) == repo # <<>>

\* if repo and "/" in repo:
RepoAccepted(repo) == repo # <<>> /\ Contains(<<"/">>, repo)

\* a build check that looks at the artifact alone
BuildSucceededIfExists(result, exists) == exists

\* if result and os.path.exists(apk_path):
BuildSucceeded(result, exists) == Truthy(result) /\ exists

\* an upload check that takes any output for success
UploadSucceededOnAnyOutput(result) == Truthy(result)

\* if result and "..." in result:
UploadSucceeded(result) == Truthy(result) /\ Contains(SuccessMsg, result.val)

OrchInit ==
    /\ \E t \in {None, Some(<<>>), Some(<<"tok">>), Some(<<" ">>)},
          r \in {None, Some(<<>>), Some(Placeholder), Some(<<"r", "/", "r">>),
                 Some(<<"r">>)},
          v \in {None, Some(<<"v0">>)} :
            env = [x \in EnvVars |->
                     IF x = "GITHUB_TOKEN" THEN t
                     ELSE IF x = "GITHUB_REPO" THEN r ELSE v]
    /\ apk \in BOOLEAN
    /\ pc = "main"
    /\ apk_path = None
    /\ upload_arg = None
    /\ upload_result = "-"
    /\ reported = NoReport
    /\ events = <<>>
    /\ supplied = [v \in {"GITHUB_TOKEN", "GITHUB_REPO"} |-> NoAnswer]
    /\ buildCmd = NoCmd
    /\ uploadCmd = NoCmd
    /\ declined = NotAsked
    /\ recheck = "-"
    /\ env0 = env
    /\ ensured = [v \in {"GITHUB_TOKEN", "GITHUB_REPO"} |-> "-"]

\* create_apk, line 92: os.path.exists(apk_path)
create_apk_exists ==
    /\ pc = "main"
    /\ pc' = IF apk THEN "stat" ELSE "build"
    /\ UNCHANGED <<svars, env, apk, apk_path, upload_arg, upload_result, reported,
                   events, supplied, buildCmd, uploadCmd, declined, recheck, env0, ensured>>

\* create_apk, lines 93-102: getmtime and getsize raise if the file is gone
create_apk_stat ==
    /\ pc = "stat"
    /\ pc' = IF apk THEN "rebuild_prompt" ELSE "crashed"
    /\ UNCHANGED <<svars, env, apk, apk_path, upload_arg, upload_result, reported,
                   events, supplied, buildCmd, uploadCmd, declined, recheck, env0, ensured>>

\* create_apk, lines 104-106: the rebuild prompt
create_apk_prompt ==
    /\ pc = "rebuild_prompt"
    /\ \E raw \in Answers :
        /\ declined' = [asked |-> TRUE, typedY |-> (raw = <<"y">>),
                         saidYes |-> IsYes(raw)]
        /\ IF RebuildWanted(raw)
           THEN /\ pc' = "build"
                /\ UNCHANGED apk_path
           ELSE /\ pc' = "create_ret"
                /\ apk_path' = Some(ApkPath)
    /\ UNCHANGED <<svars, env, apk, upload_arg, upload_result, reported, events,
                   supplied, buildCmd, uploadCmd, recheck, env0, ensured>>

\* create_apk, lines 109-117: the build command runs, then the artifact is
\* looked for again
create_apk_build ==
    /\ pc = "build"
    /\ \E exit \in ExitCodes, out \in Outputs, after \in BOOLEAN :
        LET result == execute_command(exit, out) IN
        /\ apk' = after
        /\ buildCmd' = [NoCmd EXCEPT !.ran = TRUE, !.exit = exit,
                                     !.stdout = out, !.apkAfter = after,
                                     !.env = env]
        /\ apk_path' = IF BuildSucceeded(result, after) THEN Some(ApkPath)
                       ELSE None
    /\ events' = Append(events, "build")
    /\ pc' = "create_ret"
    /\ UNCHANGED <<svars, env, upload_arg, upload_result, reported, supplied,
                   uploadCmd, declined, recheck, env0, ensured>>

\* main, lines 158-163: if not apk_path: return; else call upload_to_github
main_after_create ==
    /\ pc = "create_ret"
    /\ IF Truthy(apk_path)
       THEN /\ pc' = "upload_check"
            /\ upload_arg' = apk_path
       ELSE /\ pc' = "done"
            /\ UNCHANGED upload_arg
    /\ buildCmd' = NoCmd
    /\ UNCHANGED <<svars, env, apk, apk_path, upload_result, reported, events,
                   supplied, uploadCmd, declined, recheck, env0, ensured>>

\* upload_to_github, lines 124-126: the artifact is looked for once more
upload_to_github_exists ==
    /\ pc = "upload_check"
    /\ recheck' = IF apk THEN "present" ELSE "missing"
    /\ IF apk
       THEN /\ pc' = "ensure_token"
            /\ UNCHANGED upload_result
       ELSE /\ pc' = "upload_ret"
            /\ upload_result' = "False"
    /\ UNCHANGED <<svars, env, apk, apk_path, upload_arg, reported, events, supplied,
                   buildCmd, uploadCmd, declined, env0, ensured>>

\* ensure_github_token, line 33 (and the header printed when it prompts)
ensure_github_token ==
    /\ pc = "ensure_token"
    /\ IF TokenMissing(env)
       THEN /\ pc' = "token_prompt"
            /\ events' = Append(events, "prompt_token")
            /\ UNCHANGED ensured
       ELSE /\ pc' = "ensure_repo"
            /\ ensured' = [ensured EXCEPT !["GITHUB_TOKEN"] = "True"]
            /\ UNCHANGED events
    /\ UNCHANGED <<svars, env, apk, apk_path, upload_arg, upload_result, reported,
                   supplied, buildCmd, uploadCmd, declined, recheck, env0>>

\* ensure_github_token, lines 40-56: the token is read; an empty one makes
\* ensure_github_token, and with it upload_to_github, return False
ensure_github_token_input ==
    /\ pc = "token_prompt"
    /\ \E raw \in TokenInputs :
        LET token == Strip(raw) IN
        /\ supplied' = [supplied EXCEPT !["GITHUB_TOKEN"] =
                                           [asked |-> TRUE, raw |-> raw]]
        /\ IF TokenAccepted(token)
           THEN /\ env' = [env EXCEPT !["GITHUB_TOKEN"] = Some(token)]
                /\ pc' = "token_save"
                /\ UNCHANGED <<upload_result, ensured>>
           ELSE /\ pc' = "upload_ret"
                /\ ensured' = [ensured EXCEPT !["GITHUB_TOKEN"] = "False"]
                /\ upload_result' = "False"
                /\ UNCHANGED env
    /\ UNCHANGED <<svars, apk, apk_path, upload_arg, reported, events, buildCmd,
                   uploadCmd, declined, recheck, env0>>

\* ensure_github_token, lines 46-53: the offer to save, and the Enter it
\* waits for after the instructions
ensure_github_token_save ==
    /\ pc = "token_save"
    /\ \E raw \in Answers :
        IF SaveWanted(raw)
        THEN /\ pc' = "token_enter"
             /\ UNCHANGED ensured
        ELSE /\ pc' = "ensure_repo"
             /\ ensured' = [ensured EXCEPT !["GITHUB_TOKEN"] = "True"]
    /\ UNCHANGED <<svars, env, apk, apk_path, upload_arg, upload_result, reported,
                   events, supplied, buildCmd, uploadCmd, declined, recheck, env0>>

ensure_github_token_enter ==
    /\ pc = "token_enter"
    /\ pc' = "ensure_repo"
    /\ ensured' = [ensured EXCEPT !["GITHUB_TOKEN"] = "True"]
    /\ UNCHANGED <<svars, env, apk, apk_path, upload_arg, upload_result, reported,
                   events, supplied, buildCmd, uploadCmd, declined, recheck, env0>>

\* ensure_github_repo, line 61 (and the header printed when it prompts)
ensure_github_repo ==
    /\ pc = "ensure_repo"
    /\ IF RepoMissing(env)
       THEN /\ pc' = "repo_prompt"
            /\ events' = Append(events, "prompt_repo")
            /\ UNCHANGED ensured
       ELSE /\ pc' = "show_info"
            /\ ensured' = [ensured EXCEPT !["GITHUB_REPO"] = "True"]
            /\ UNCHANGED events
    /\ UNCHANGED <<svars, env, apk, apk_path, upload_arg, upload_result, reported,
                   supplied, buildCmd, uploadCmd, declined, recheck, env0>>

\* ensure_github_repo, lines 65-81
ensure_github_repo_input ==
    /\ pc = "repo_prompt"
    /\ \E raw \in RepoInputs :
        LET repo == Strip(raw) IN
        /\ supplied' = [supplied EXCEPT !["GITHUB_REPO"] =
                                           [asked |-> TRUE, raw |-> raw]]
        /\ IF RepoAccepted(repo)
           THEN /\ env' = [env EXCEPT !["GITHUB_REPO"] = Some(repo)]
                /\ pc' = "repo_save"
                /\ UNCHANGED <<upload_result, ensured>>
           ELSE /\ pc' = "upload_ret"
                /\ ensured' = [ensured EXCEPT !["GITHUB_REPO"] = "False"]
                /\ upload_result' = "False"
                /\ UNCHANGED env
    /\ UNCHANGED <<svars, apk, apk_path, upload_arg, reported, events, buildCmd,
                   uploadCmd, declined, recheck, env0>>

\* ensure_github_repo, lines 71-78
ensure_github_repo_save ==
    /\ pc = "repo_save"
    /\ \E raw \in Answers :
        IF SaveWanted(raw)
        THEN /\ pc' = "repo_enter"
             /\ UNCHANGED ensured
        ELSE /\ pc' = "show_info"
             /\ ensured' = [ensured EXCEPT !["GITHUB_REPO"] = "True"]
    /\ UNCHANGED <<svars, env, apk, apk_path, upload_arg, upload_result, reported,
                   events, supplied, buildCmd, uploadCmd, declined, recheck, env0>>

ensure_github_repo_enter ==
    /\ pc = "repo_enter"
    /\ pc' = "show_info"
    /\ ensured' = [ensured EXCEPT !["GITHUB_REPO"] = "True"]
    /\ UNCHANGED <<svars, env, apk, apk_path, upload_arg, upload_result, reported,
                   events, supplied, buildCmd, uploadCmd, declined, recheck, env0>>

\* upload_to_github, lines 133-151: getsize raises if the artifact is gone;
\* otherwise RELEASE_VERSION is set, the upload command runs with the
\* environment as it then is, and its output decides the return value
upload_to_github_run ==
    /\ pc = "show_info"
    /\ IF ~apk
       THEN /\ pc' = "crashed"
            /\ UNCHANGED <<env, upload_result, events, uploadCmd>>
       ELSE \E v \in Versions, exit \in ExitCodes, out \in Outputs :
            LET env1 == [env EXCEPT !["RELEASE_VERSION"] = Some(v)]
                result == execute_command(exit, out)
            IN  /\ env' = env1
                /\ uploadCmd' = [NoCmd EXCEPT !.ran = TRUE, !.exit = exit,
                                              !.stdout = out,
                                              !.apkAfter = apk,
                                              !.env = env1]
                /\ events' = Append(events, "upload")
                /\ upload_result' = IF UploadSucceeded(result) THEN "True"
                                    ELSE "False"
                /\ pc' = "upload_ret"
    /\ UNCHANGED <<svars, apk, apk_path, upload_arg, reported, supplied,
                   buildCmd, declined, recheck, env0, ensured>>

\* main, lines 165-173: the final report
main_report ==
    /\ pc = "upload_ret"
    /\ reported' = IF upload_result = "True"
                   THEN [kind |-> "success",
                         version |-> env["RELEASE_VERSION"],
                         repo |-> env["GITHUB_REPO"]]
                   ELSE [NoReport EXCEPT !.kind = "failure"]
    /\ pc' = "done"
    /\ UNCHANGED <<svars, env, apk, apk_path, upload_arg, upload_result, events,
                   supplied, buildCmd, uploadCmd, declined, recheck, env0, ensured>>

\* input() raises EOFError or KeyboardInterrupt: nothing catches it
input_interrupted ==
    /\ pc \in {"rebuild_prompt", "token_prompt", "token_save", "token_enter",
               "repo_prompt", "repo_save", "repo_enter"}
    /\ pc' = "crashed"
    /\ UNCHANGED <<svars, env, apk, apk_path, upload_arg, upload_result, reported,
                   events, supplied, buildCmd, uploadCmd, declined, recheck, env0, ensured>>

\* An outside actor creates or removes the artifact while the script can
\* still look at it (its last look is the getsize of line 133).
OutsideTouchApk ==
    /\ pc \notin {"upload_ret", "done", "crashed"}
    /\ apk' = ~apk
    /\ UNCHANGED <<svars, env, pc, apk_path, upload_arg, upload_result, reported,
                   events, supplied, buildCmd, uploadCmd, declined, recheck, env0, ensured>>

OrchNext ==
    \/ create_apk_exists
    \/ create_apk_stat
    \/ create_apk_prompt
    \/ create_apk_build
    \/ main_after_create
    \/ upload_to_github_exists
    \/ ensure_github_token
    \/ ensure_github_token_input
    \/ ensure_github_token_save
    \/ ensure_github_token_enter
    \/ ensure_github_repo
    \/ ensure_github_repo_input
    \/ ensure_github_repo_save
    \/ ensure_github_repo_enter
    \/ upload_to_github_run
    \/ main_report
    \/ input_interrupted
    \/ OutsideTouchApk

(* ========================== specifications ============================ *)
\* The two scripts share nothing: each specification runs one of them and
\* leaves the other at rest.
ServerAtRest ==
    /\ zip = None
    /\ spc = "off"
    /\ path = <<>>
    /\ resp = NoResp
    /\ zipAtCheck = None
    /\ zipAtRead = None

OrchAtRest ==
    /\ env = [v \in EnvVars |-> None]
    /\ apk = FALSE
    /\ pc = "off"
    /\ apk_path = None
    /\ upload_arg = None
    /\ upload_result = "-"
    /\ reported = NoReport
    /\ events = <<>>
    /\ supplied = [v \in {"GITHUB_TOKEN", "GITHUB_REPO"} |-> NoAnswer]
    /\ buildCmd = NoCmd
    /\ uploadCmd = NoCmd
    /\ declined = NotAsked
    /\ recheck = "-"
    /\ env0 = env
    /\ ensured = [v \in {"GITHUB_TOKEN", "GITHUB_REPO"} |-> "-"]

Init == OrchInit /\ ServerAtRest
Next == OrchNext
Spec == Init /\ [][Next]_vars

ServerSpecInit == ServerInit /\ OrchAtRest
ServerSpec == ServerSpecInit /\ [][ServerNext]_vars

(* ============================== claims ================================ *)
\* vocabulary of the claims
Happened(e) == \E i \in 1..Len(events) : events[i] = e
TimesHappened(e) == Cardinality({i \in 1..Len(events) : events[i] = e})
HasNonBlank(s) == \E i \in 1..Len(s) : s[i] \notin Whitespace
HasSlash(s) == \E i \in 1..Len(s) : s[i] = "/"
\* v is raw without the blanks at its two ends
IsTrimOf(v, raw) ==
    /\ v # <<>>
    /\ v[1] \notin Whitespace
    /\ v[Len(v)] \notin Whitespace
    /\ \E i \in 1..Len(raw) :
        /\ i + Len(v) - 1 <= Len(raw)
        /\ SubSeq(raw, i, i + Len(v) - 1) = v
        /\ \A j \in 1..Len(raw) :
              (j < i \/ j > i + Len(v) - 1) => raw[j] \in Whitespace
\* the number of tenths of a kilobyte t is the size rounded to one decimal
ShowsSize(t, size) ==
    /\ t * 1024 - size * 10 <= 512
    /\ size * 10 - t * 1024 <= 512
Handled == spc = "done"

(* ---- the download server (ServerSpec) ---- *)

\* C1: every GET of exactly "/" is answered 200 with an HTML body that shows
\* the size the target file has on disk at that moment, whether the file is
\* present or absent.  The code raises in os.path.getsize when the file is
\* absent, after the 200 status line, and writes no body.
C1_RootShowsSize ==
    (Handled /\ path = RootPath) =>
        /\ resp.status = 200
        /\ resp.body.kind = "html"
        /\ zipAtCheck.some => ShowsSize(resp.body.tenthsKB, GetSize(zipAtCheck.val))

\* C2: every GET of exactly "/download" that finds the file present is
\* answered 200 with the Content-Disposition header naming the file and a
\* body equal to the file's contents, also when the file is replaced or
\* removed between the existence check and the read.
C2_DownloadServesFile ==
    (Handled /\ path = DownloadPath /\ zipAtCheck.some) =>
        /\ resp.status = 200
        /\ resp.disposition = ZIP_FILE
        /\ resp.body.kind = "file"
        /\ zipAtRead.some => resp.body.data = zipAtRead.val

\* C3: a GET is answered 404 exactly when the path is "/download" and the
\* file is absent at the check, or the path is neither "/" nor "/download"
\* (a query string or a trailing slash makes it another path); a 404 answer
\* carries no file content.
C3_NotFoundExactly ==
    spc \in {"read", "done"} =>
        /\ (resp.status = 404) <=>
              \/ path = DownloadPath /\ ~zipAtCheck.some
              \/ path \notin {RootPath, DownloadPath}
        /\ resp.status = 404 =>
              /\ spc = "done"
              /\ resp.body.kind = "text"
              /\ resp.body.data = <<>>
              /\ zipAtRead = None

C3_Witness ==
    /\ Handled
    /\ path = <<"/", "download", "?x">>
    /\ zip.some
    /\ resp.status = 404

(* ---- the orchestrator (Spec) ---- *)

\* what C4 promises once the rebuild prompt was answered with a refusal
DeclineHonoured ==
    /\ ~Happened("build")
    /\ pc # "build"
    /\ apk_path = Some(ApkPath)
    /\ pc # "create_ret" => upload_arg = Some(ApkPath)

\* C4 as stated: the artifact exists at the check and the operator types
\* anything other than 'y'; then the build command never runs and
\* upload_to_github is called next with the path of the existing artifact.
C4_DeclineAsTyped ==
    (declined.asked /\ ~declined.typedY) => DeclineHonoured

\* C4 amended: ... anything that is not 'y' once the blanks around it are
\* stripped and it is lower-cased ...
C4_DeclineNormalised ==
    (declined.asked /\ ~declined.saidYes) => DeclineHonoured

C4_Witness ==
    /\ declined.asked
    /\ ~declined.saidYes
    /\ pc = "upload_check"
    /\ upload_arg = Some(ApkPath)
    /\ events = <<>>

\* what C5 promises for variable x once the operator supplied a value:
\* the environment holds the stripped value from then on, the upload command
\* is started with it and the final report shows it
Observed(x) ==
    /\ env[x].some
    /\ IsTrimOf(env[x].val, supplied[x].raw)
    /\ uploadCmd.ran => uploadCmd.env[x] = env[x]
    /\ (x = "GITHUB_REPO" /\ reported.kind = "success") => reported.repo = env[x]

\* C5 as stated: a value typed at the prompt of an absent GITHUB_TOKEN or
\* GITHUB_REPO is, stripped, what every later step finds in the environment.
C5_SuppliedIsObserved ==
    \A x \in {"GITHUB_TOKEN", "GITHUB_REPO"} :
        (supplied[x].asked /\ HasNonBlank(supplied[x].raw)) => Observed(x)

\* C5 amended: ... a value the prompt accepts (any token that is not blank;
\* a repository identifier that contains "/") ...
C5_AcceptedIsObserved ==
    /\ (supplied["GITHUB_TOKEN"].asked /\ HasNonBlank(supplied["GITHUB_TOKEN"].raw))
           => Observed("GITHUB_TOKEN")
    /\ (supplied["GITHUB_REPO"].asked /\ HasSlash(supplied["GITHUB_REPO"].raw))
           => Observed("GITHUB_REPO")

C5_Witness ==
    /\ pc = "done"
    /\ reported.kind = "success"
    /\ supplied["GITHUB_TOKEN"].raw = <<"tok">>
    /\ supplied["GITHUB_REPO"].raw = <<" ", "/">>
    /\ uploadCmd.env["GITHUB_TOKEN"] = Some(<<"tok">>)
    /\ reported.repo = Some(<<"/">>)

\* C6 as stated: after the build command ran, create_apk returns the path
\* exactly when the artifact exists, whatever the exit code and the output.
C6_ExistenceAlone ==
    (pc = "create_ret" /\ buildCmd.ran) =>
        (apk_path = Some(ApkPath) <=> buildCmd.apkAfter)

\* C6 amended: create_apk returns the path exactly when the build command
\* exited with status zero, printed something other than blanks, and the
\* artifact exists afterwards; otherwise it returns None.
C6_ExitOutputAndExistence ==
    (pc = "create_ret" /\ buildCmd.ran) =>
        /\ apk_path \in {None, Some(ApkPath)}
        /\ apk_path = Some(ApkPath) <=>
              /\ buildCmd.exit = 0
              /\ HasNonBlank(buildCmd.stdout)
              /\ buildCmd.apkAfter

C6_Witness ==
    /\ pc = "create_ret"
    /\ buildCmd.ran
    /\ buildCmd.exit = 0
    /\ buildCmd.stdout = <<" ">>
    /\ buildCmd.apkAfter
    /\ apk_path = None

\* C7: after a detected failure no later step runs.  create_apk returned
\* None: no credential prompt, no upload command.  Artifact missing at
\* upload_to_github's own check, a blank token typed, or a repository
\* identifier without "/" typed: no upload command; and after a blank token
\* the repository prompt is not shown.
C7_FailureStopsPipeline ==
    /\ (pc \in {"create_ret", "done"} /\ apk_path = None) =>
           /\ ~Happened("prompt_token")
           /\ ~Happened("prompt_repo")
           /\ ~Happened("upload")
           /\ upload_arg = None
    /\ recheck = "missing" =>
           /\ ~Happened("upload")
           /\ ~Happened("prompt_token")
           /\ ~Happened("prompt_repo")
           /\ pc \in {"upload_ret", "done"}
    /\ (supplied["GITHUB_TOKEN"].asked /\ ~HasNonBlank(supplied["GITHUB_TOKEN"].raw)) =>
           /\ ~Happened("upload")
           /\ ~Happened("prompt_repo")
           /\ pc \in {"upload_ret", "done"}
    /\ (supplied["GITHUB_REPO"].asked /\ ~HasSlash(supplied["GITHUB_REPO"].raw)) =>
           /\ ~Happened("upload")
           /\ pc \in {"upload_ret", "done"}

C7_Witness ==
    /\ pc = "done"
    /\ supplied["GITHUB_TOKEN"].asked
    /\ ~HasNonBlank(supplied["GITHUB_TOKEN"].raw)
    /\ reported.kind = "failure"
    /\ events = <<"build", "prompt_token">>

\* the upload command ran, exited with status zero and printed the fixed
\* success substring
UploadReallySucceeded ==
    /\ uploadCmd.ran
    /\ uploadCmd.exit = 0
    /\ \E i \in 1..Len(uploadCmd.stdout) - 1 :
          uploadCmd.stdout[i] = SuccessMsg[1] /\ uploadCmd.stdout[i + 1] = SuccessMsg[2]

\* C8: upload_to_github returns True, and main prints the success report,
\* exactly when the upload command ran, exited with status zero and printed
\* the success substring; a non-zero exit, an empty output or an output
\* without the substring make main print the failure report.
C8_SuccessIffSubstring ==
    /\ upload_result = "True" <=> UploadReallySucceeded
    /\ reported.kind = "success" => UploadReallySucceeded
    /\ (pc = "done" /\ uploadCmd.ran) =>
           reported.kind = IF UploadReallySucceeded THEN "success" ELSE "failure"

C8_Witness ==
    /\ pc = "done"
    /\ reported.kind = "success"
    /\ uploadCmd.stdout = <<"S1", "S2">>

\* the typed value was taken: it is in the environment, stripped, and the
\* ensure function did not return False
Taken(x) ==
    /\ env[x].some
    /\ IsTrimOf(env[x].val, supplied[x].raw)
    /\ ensured[x] # "False"
\* the typed value was refused: the environment is as it was and the ensure
\* function returned False
Refused(x) ==
    /\ env[x] = env0[x]
    /\ ensured[x] = "False"
TypedValuesValidated ==
    /\ supplied["GITHUB_TOKEN"].asked =>
           IF HasNonBlank(supplied["GITHUB_TOKEN"].raw)
           THEN Taken("GITHUB_TOKEN") ELSE Refused("GITHUB_TOKEN")
    /\ supplied["GITHUB_REPO"].asked =>
           IF HasSlash(supplied["GITHUB_REPO"].raw)
           THEN Taken("GITHUB_REPO") ELSE Refused("GITHUB_REPO")
    /\ (env0["GITHUB_REPO"] = Some(Placeholder) /\ ensured["GITHUB_REPO"] # "-") =>
           Happened("prompt_repo")
\* the value the process started with is taken as it is, unprompted
TakenUnprompted(x, prompt) ==
    /\ ~Happened(prompt)
    /\ ~supplied[x].asked
    /\ ensured[x] # "False"
    /\ env[x] = env0[x]

\* C9 as stated: a typed token is accepted iff it is not blank, a typed
\* repository identifier iff it is non-empty and contains "/"; a value
\* already in the environment is accepted unchecked, except the placeholder
\* "username/repo", which makes ensure_github_repo prompt; a refusal leaves
\* the environment unchanged and returns False.
C9_PresentValueUnchecked ==
    /\ TypedValuesValidated
    /\ env0["GITHUB_TOKEN"].some => TakenUnprompted("GITHUB_TOKEN", "prompt_token")
    /\ (env0["GITHUB_REPO"].some /\ env0["GITHUB_REPO"] # Some(Placeholder)) =>
           TakenUnprompted("GITHUB_REPO", "prompt_repo")

\* C9 amended: ... a non-empty value already in the environment is accepted
\* unchecked (a variable set to the empty string is treated as absent) ...
C9_NonEmptyValueUnchecked ==
    /\ TypedValuesValidated
    /\ (env0["GITHUB_TOKEN"].some /\ env0["GITHUB_TOKEN"].val # <<>>) =>
           TakenUnprompted("GITHUB_TOKEN", "prompt_token")
    /\ (env0["GITHUB_REPO"].some /\ env0["GITHUB_REPO"].val # <<>>
            /\ env0["GITHUB_REPO"] # Some(Placeholder)) =>
           TakenUnprompted("GITHUB_REPO", "prompt_repo")
    /\ \A x \in {"GITHUB_TOKEN", "GITHUB_REPO"} :
           (env0[x] = Some(<<>>) /\ ensured[x] # "-") => supplied[x].asked

C9_Witness ==
    /\ env0["GITHUB_TOKEN"] = Some(<<" ">>)
    /\ env0["GITHUB_REPO"] = Some(Placeholder)
    /\ ensured["GITHUB_TOKEN"] = "True"
    /\ supplied["GITHUB_REPO"].raw = <<"r", " ">>
    /\ ensured["GITHUB_REPO"] = "False"
    /\ pc = "done"

\* C10: in every run the upload command runs at most once, the build
\* command at most once and only before the upload command, and the upload
\* command is started with GITHUB_TOKEN and GITHUB_REPO non-empty,
\* GITHUB_REPO other than the placeholder "username/repo", and
\* RELEASE_VERSION set.
C10_UploadPreconditions ==
    /\ TimesHappened("upload") <= 1
    /\ TimesHappened("build") <= 1
    /\ \A i, j \in 1..Len(events) :
           (events[i] = "build" /\ events[j] = "upload") => i < j
    /\ uploadCmd.ran =>
           /\ Truthy(uploadCmd.env["GITHUB_TOKEN"])
           /\ Truthy(uploadCmd.env["GITHUB_REPO"])
           /\ uploadCmd.env["GITHUB_REPO"] # Some(Placeholder)
           /\ uploadCmd.env["RELEASE_VERSION"].some

=============================================================================
